---------------------------- MODULE Spec2Model ----------------------------
(***************************************************************************)
(* A model of QuEST_common.c, the hardware-agnostic part of QuEST: the     *)
(* fatal assertion path, the host-name hash and the default seeding, the   *)
(* epsilon validators, the register queries and reports, and the           *)
(* rotation-to-(alpha, beta) decomposition.                                *)
(*                                                                         *)
(* Each subsystem has its own specification (SpecAssert, SpecHash, ...).   *)
(* A specification starts its own variables in the states the program can  *)
(* be in and parks the variables of the other subsystems.                  *)
(*                                                                         *)
(* Machine integers wider than TLC's are little-endian sequences of bytes  *)
(* ("limbs"), so that unsigned long and long long keep their width.        *)
(***************************************************************************)
EXTENDS Integers, Sequences, FiniteSets, TLC

VARIABLES
    proc,           \* the process: status, exit status, standard output
    lastCall,       \* the arguments of the latest QuESTAssert call
    stdoutBefore,   \* standard output as it was when that call was made
    stmtsAfterCall, \* statements executed after that call
    callsMade,      \* QuESTAssert calls made so far
    build,          \* the build: whether char is signed, bytes of unsigned long
    hashInput,      \* the bytes of the string handed to hashString
    hashResult,     \* what hashString returned (limbs), <<>> before the call
    clock,          \* the wall clock: [tv_sec, tv_usec]
    ticks,          \* clock ticks so far
    pidOf,          \* each process's identifier
    hostOf,         \* each process's host name (bytes)
    mtKey,          \* the key array each process passed to init_by_array
    seededBy,       \* which entry point each process seeded through
    alpha,          \* the Complex pair handed to the validators
    beta,
    alphaBetaResult,   \* what validateAlphaBeta returned, -1 before the call
    unitComplexResult, \* what validateUnitComplex returned, -1 before the call
    u,              \* the ComplexMatrix2 handed to validateMatrixIsUnitary
    unitaryResult,  \* what validateMatrixIsUnitary returned, -1 before the call
    rotHalfTurns,   \* the rotation angle, in multiples of pi
    rotAxis,        \* the rotation axis
    rotPair,        \* (alpha, beta) pure_rotateAroundAxis handed to the kernel
    rotConjPair,    \* (alpha, beta) pure_rotateAroundAxisConj handed to the kernel
    quregs,         \* the QubitRegister of each chunk's process
    console,        \* the lines printed, each with the chunk that printed it
    files,          \* the file system: name -> lines written
    reportPc,       \* each process: reportQubitRegisterParams to do or done
    statePc,        \* each process: where it is in reportState
    bigQureg,       \* a QubitRegister with its sizes at machine width
    numAmpsResult,  \* what pure_getNumAmps returned (4 bytes), <<>> before
    numQubitsResult \* what pure_getNumQubits returned, -1 before

errVars == <<proc, lastCall, stdoutBefore, stmtsAfterCall, callsMade>>
hashVars == <<hashInput, hashResult>>
seedVars == <<clock, ticks, pidOf, hostOf, mtKey, seededBy>>

abVars == <<alpha, beta, alphaBetaResult, unitComplexResult>>
unitaryVars == <<u, unitaryResult>>
rotVars == <<rotHalfTurns, rotAxis, rotPair, rotConjPair>>

reportVars == <<quregs, console, files, reportPc, statePc>>
numAmpsVars == <<bigQureg, numAmpsResult, numQubitsResult>>

vars == <<errVars, build, hashVars, seedVars, abVars, unitaryVars, rotVars,
          reportVars, numAmpsVars>>

\* What the actions of one subsystem leave alone: the other subsystems.
ErrFrame == UNCHANGED <<build, hashVars, seedVars, abVars, unitaryVars, rotVars, reportVars, numAmpsVars>>
HashFrame == UNCHANGED <<build, errVars, seedVars, abVars, unitaryVars, rotVars, reportVars, numAmpsVars>>
SeedFrame == UNCHANGED <<build, errVars, hashVars, abVars, unitaryVars, rotVars, reportVars, numAmpsVars>>
AlphaBetaFrame == UNCHANGED <<build, errVars, hashVars, seedVars, unitaryVars, rotVars, reportVars, numAmpsVars>>
UnitaryFrame == UNCHANGED <<build, errVars, hashVars, seedVars, abVars, rotVars, reportVars, numAmpsVars>>
RotFrame == UNCHANGED <<build, errVars, hashVars, seedVars, abVars, unitaryVars, reportVars, numAmpsVars>>
ReportFrame == UNCHANGED <<build, errVars, hashVars, seedVars, abVars, unitaryVars, rotVars, numAmpsVars>>
NumAmpsFrame == UNCHANGED <<build, errVars, hashVars, seedVars, abVars, unitaryVars, rotVars, reportVars>>

-----------------------------------------------------------------------------
(* Bounds of the model *)

MaxCalls == 3
MaxStmts == 2
MaxStrLen == 11
MaxTicks == 3
NumProcs == 2
Grid == 4
MaxHalfTurns == 3
MaxAxis == 2
MaxReportQubits == 2
MaxLogChunks == 1
MaxNumQubits == 33

-----------------------------------------------------------------------------
(* ErrorReporter: errorCodes, exitWithError, QuESTAssert *)

errorCodes ==
    << "Success",
       "Invalid target qubit. Note qubits are zero indexed.",
       "Invalid control qubit. Note qubits are zero indexed.",
       "Control qubit cannot equal target qubit.",
       "Invalid number of control qubits",
       "Invalid unitary matrix.",
       "Invalid rotation arguments.",
       "Invalid system size. Cannot print output for systems greater than 5 qubits.",
       "Can't collapse to state with zero probability.",
       "Invalid number of qubits.",
       "Invalid measurement outcome -- must be either 0 or 1.",
       "Could not open file.",
       "Second argument must be a pure state, not a density matrix.",
       "Dimensions of the qubit registers do not match.",
       "This operation is only defined for density matrices.",
       "This operation is only defined for two pure states.",
       "An non-unitary internal operation (phaseShift) occured." >>

\* The error codes that index the catalog: 0 .. 16.
ErrorKinds == 0 .. (Len(errorCodes) - 1)

\* The function names callers pass.
FuncNames == {"pure_compactUnitary", "pure_unitary"}

\* No call made yet.
NoCall == [isValid |-> -1, errorCode |-> -1, func |-> ""]

\* exit(status): the status a parent sees is the low eight bits.
ExitStatus(status) == status % 256

\* A mutant of exitWithError: exits with the fixed status 1.
exitWithErrorFixedStatus(errorCode, func, p) ==
    [p EXCEPT !.stdout = p.stdout \o
                  << <<"!!!">>,
                     <<"QuEST Error in function ", func, ": ", errorCodes[errorCode + 1]>>,
                     <<"!!!">>,
                     <<"exiting..">> >>,
              !.status = "exited",
              !.exitStatus = ExitStatus(1)]

\* exitWithError: four printf calls, then exit(errorCode).
exitWithError(errorCode, func, p) ==
    [p EXCEPT !.stdout = p.stdout \o
                  << <<"!!!">>,
                     <<"QuEST Error in function ", func, ": ", errorCodes[errorCode + 1]>>,
                     <<"!!!">>,
                     <<"exiting..">> >>,
              !.status = "exited",
              !.exitStatus = ExitStatus(errorCode)]

\* QuESTAssert: if (!isValid) exitWithError(errorCode, func);
QuESTAssert(isValid, errorCode, func, p) ==
    IF isValid = 0 THEN exitWithError(errorCode, func, p) ELSE p

\* The process before any QuESTAssert call.
ErrInit ==
    /\ proc = [status |-> "running", exitStatus |-> -1, stdout |-> <<>>]
    /\ lastCall = NoCall
    /\ stdoutBefore = <<>>
    /\ stmtsAfterCall = 0
    /\ callsMade = 0

ErrIdle == ErrInit

\* A caller reaches a QuESTAssert call.
CallQuESTAssert(isValid, errorCode, func) ==
    /\ proc.status = "running"
    /\ callsMade < MaxCalls
    /\ proc' = QuESTAssert(isValid, errorCode, func, proc)
    /\ lastCall' = [isValid |-> isValid, errorCode |-> errorCode, func |-> func]
    /\ stdoutBefore' = proc.stdout
    /\ stmtsAfterCall' = 0
    /\ callsMade' = callsMade + 1
    /\ ErrFrame

\* The caller executes the statement that follows the call; a process that
\* has exited executes nothing.
RunNextStatement ==
    /\ proc.status = "running"
    /\ lastCall # NoCall
    /\ stmtsAfterCall < MaxStmts
    /\ stmtsAfterCall' = stmtsAfterCall + 1
    /\ UNCHANGED <<proc, lastCall, stdoutBefore, callsMade>>
    /\ ErrFrame

-----------------------------------------------------------------------------
(* Machine integers as little-endian sequences of bytes *)

\* The k-byte representation of n, 0 <= n < 2^31.
ToLimbs(n, k) ==
    [i \in 1 .. k |->
        IF i <= 3 THEN (n \div (256 ^ (i - 1))) % 256
        ELSE IF i = 4 THEN n \div 16777216
        ELSE 0]

\* Bitwise complement.
NotLimbs(x) == [i \in 1 .. Len(x) |-> 255 - x[i]]

RECURSIVE AddCarry(_, _, _, _)
AddCarry(x, y, i, carry) ==
    IF i > Len(x) THEN <<>>
    ELSE LET s == x[i] + y[i] + carry
         IN  <<s % 256>> \o AddCarry(x, y, i + 1, s \div 256)

\* x + y modulo 2^(8 * Len(x)).
AddLimbs(x, y) == AddCarry(x, y, 1, 0)

\* x << s for 0 <= s < 8, the bits shifted out at the top dropped.
ShiftLeftLimbs(x, s) ==
    [i \in 1 .. Len(x) |->
        ((x[i] * (2 ^ s)) % 256)
          + (IF i = 1 THEN 0 ELSE x[i - 1] \div (2 ^ (8 - s)))]

RECURSIVE MulSmallCarry(_, _, _, _)
MulSmallCarry(x, m, i, carry) ==
    IF i > Len(x) THEN <<>>
    ELSE LET v == x[i] * m + carry
         IN  <<v % 256>> \o MulSmallCarry(x, m, i + 1, v \div 256)

\* x * m modulo 2^(8 * Len(x)), for a small multiplier 0 <= m < 2^16.
MulSmallLimbs(x, m) == MulSmallCarry(x, m, 1, 0)

\* x * 256^j modulo 2^(8 * Len(x)).
ShiftBytes(x, j) == [i \in 1 .. Len(x) |-> IF i - j >= 1 THEN x[i - j] ELSE 0]

RECURSIVE MulAcc(_, _, _)
MulAcc(x, y, j) ==
    IF j > Len(y) THEN [i \in 1 .. Len(x) |-> 0]
    ELSE AddLimbs(MulSmallLimbs(ShiftBytes(x, j - 1), y[j]), MulAcc(x, y, j + 1))

\* x * y modulo 2^(8 * Len(x)).
MulLimbs(x, y) == MulAcc(x, y, 1)

\* 2^n in k bytes (0 when n >= 8 * k).
Pow2Limbs(n, k) == [i \in 1 .. k |-> IF (n \div 8) + 1 = i THEN 2 ^ (n % 8) ELSE 0]

\* The value of a signed integer of Len(x) bytes converted to k >= Len(x) bytes.
SignExtend(x, k) ==
    [i \in 1 .. k |->
        IF i <= Len(x) THEN x[i]
        ELSE IF x[Len(x)] >= 128 THEN 255 ELSE 0]

\* The low k bytes.
Truncate(x, k) == [i \in 1 .. k |-> x[i]]

\* An int c, -2^31 < c < 2^31, converted to an unsigned integer of k bytes.
IntToUnsigned(c, k) ==
    IF c >= 0 THEN ToLimbs(c, k) ELSE NotLimbs(ToLimbs((-c) - 1, k))

-----------------------------------------------------------------------------
(* DeterministicSeeder: hashString, seedQuESTDefault, seedQuEST *)

\* What the C implementation leaves to the build: whether plain char is
\* signed, and the width of unsigned long (LP64 or ILP32/LLP64).
Builds == [charSigned : BOOLEAN, ulongBytes : {4, 8}]

\* The byte values strings are drawn from: an ASCII letter and a byte >= 128.
HashBytes == {97, 200}

\* The strings of at most n bytes, none of them the terminator.
Strings(n) == UNION {[1 .. k -> HashBytes] : k \in 0 .. n}

\* int c = *str: the value of a plain char holding the byte.
CharToInt(byte, charSigned) ==
    IF charSigned /\ byte >= 128 THEN byte - 256 ELSE byte

\* hash = ((hash << 5) + hash) + c;
hashStep(hash, c) ==
    AddLimbs(AddLimbs(ShiftLeftLimbs(hash, 5), hash), IntToUnsigned(c, Len(hash)))

RECURSIVE hashLoop(_, _, _, _)
\* while ((c = *str++)) ...; over the memory mem read from position pos.
hashLoop(mem, pos, hash, b) ==
    LET c == CharToInt(mem[pos], b.charSigned)
    IN  IF c = 0 THEN hash
        ELSE hashLoop(mem, pos + 1, hashStep(hash, c), b)

\* hashString(str), str pointing at the bytes followed by the terminator.
hashString(str, b) ==
    hashLoop(Append(str, 0), 1, ToLimbs(5381, b.ulongBytes), b)

HashInit ==
    /\ hashInput \in Strings(MaxStrLen)
    /\ hashResult = <<>>

HashIdle ==
    /\ hashInput = <<>>
    /\ hashResult = <<>>

\* A caller hashes the string.
CallHashString ==
    /\ hashResult = <<>>
    /\ hashResult' = hashString(hashInput, build)
    /\ UNCHANGED hashInput
    /\ HashFrame

\* Host names: ASCII bytes ("a", "ab").
HostNames == {<<97>>, <<97, 98>>}

\* Process identifiers the operating system hands out.
Pids == {4001, 4002, 4003}

Procs == 1 .. NumProcs

\* The start of the run by the model's clock.
StartTimes ==
    { [tv_sec |-> 1, tv_usec |-> 0], [tv_sec |-> 1, tv_usec |-> 999400] }

\* The clock advances by 600 microseconds.
TickClock(c) ==
    IF c.tv_usec + 600 >= 1000000
    THEN [tv_sec |-> c.tv_sec + 1, tv_usec |-> (c.tv_usec + 600) - 1000000]
    ELSE [c EXCEPT !.tv_usec = c.tv_usec + 600]

\* The key seedQuESTDefault builds: milliseconds, pid, hash of the host name.
defaultKey(tv, pid, hostName, b) ==
    LET time_in_mill == (tv.tv_sec * 1000) + (tv.tv_usec \div 1000)
    IN  << IntToUnsigned(time_in_mill, b.ulongBytes),
           IntToUnsigned(pid, b.ulongBytes),
           hashString(hostName, b) >>

SeedInit ==
    /\ clock \in StartTimes
    /\ ticks = 0
    /\ hostOf \in [Procs -> HostNames]
    /\ pidOf \in [Procs -> Pids]
    \* two processes of one host never share an identifier
    /\ \A p, q \in Procs : (p # q /\ hostOf[p] = hostOf[q]) => pidOf[p] # pidOf[q]
    /\ mtKey = [p \in Procs |-> <<>>]
    /\ seededBy = [p \in Procs |-> "none"]

SeedIdle ==
    /\ clock = [tv_sec |-> 0, tv_usec |-> 0]
    /\ ticks = 0
    /\ hostOf = <<>>
    /\ pidOf = <<>>
    /\ mtKey = <<>>
    /\ seededBy = <<>>

\* Time passes.
Tick ==
    /\ ticks < MaxTicks
    /\ ticks' = ticks + 1
    /\ clock' = TickClock(clock)
    /\ UNCHANGED <<pidOf, hostOf, mtKey, seededBy>>
    /\ SeedFrame

\* seedQuESTDefault in process p: init_by_array(key, 3).
seedQuESTDefault(p) ==
    /\ mtKey' = [mtKey EXCEPT ![p] = defaultKey(clock, pidOf[p], hostOf[p], build)]
    /\ seededBy' = [seededBy EXCEPT ![p] = "seedQuESTDefault"]
    /\ UNCHANGED <<clock, ticks, pidOf, hostOf>>
    /\ SeedFrame

\* The seed arrays callers pass to seedQuEST.
SeedArrays == { <<1>>, <<1, 2>> }

\* seedQuEST in process p: init_by_array(seedArray, numSeeds).
seedQuEST(p, seedArray) ==
    /\ mtKey' = [mtKey EXCEPT ![p] =
                    [i \in 1 .. Len(seedArray) |->
                        IntToUnsigned(seedArray[i], build.ulongBytes)]]
    /\ seededBy' = [seededBy EXCEPT ![p] = "seedQuEST"]
    /\ UNCHANGED <<clock, ticks, pidOf, hostOf>>
    /\ SeedFrame

-----------------------------------------------------------------------------
(* ComplexAlgebra and UnitarityValidator                                   *)
(*                                                                         *)
(* REAL values are fixed-point: a value x is the integer x * Grid, a       *)
(* product of two values is in units of 1 / Grid^2, and REAL_EPS is a      *)
(* whole number of those units, so that a deviation of exactly REAL_EPS    *)
(* is a value the model holds.                                             *)

\* REAL_EPS in units of 1 / Grid^2.
REAL_EPS == 1

\* The constant 1 in units of 1 / Grid^2.
One == Grid * Grid

absReal(x) == IF x < 0 THEN -x ELSE x

\* The REAL values -1 .. 1 the grid holds.
GridReals == (-Grid) .. Grid

GridComplex == [real : GridReals, imag : GridReals]

\* getConjugateScalar
getConjugateScalar(scalar) == [real |-> scalar.real, imag |-> -scalar.imag]

\* getConjugateMatrix
getConjugateMatrix(matrix) ==
    [r0c0 |-> getConjugateScalar(matrix.r0c0),
     r0c1 |-> getConjugateScalar(matrix.r0c1),
     r1c0 |-> getConjugateScalar(matrix.r1c0),
     r1c1 |-> getConjugateScalar(matrix.r1c1)]

\* validateUnitComplex: absReal(1 - sqrt(re^2 + im^2)) < REAL_EPS. With
\* s = re^2 + im^2 in units of 1 / Grid^2 this is, squared,
\* (One - REAL_EPS)^2 < One * s < (One + REAL_EPS)^2.
validateUnitComplex(a) ==
    LET s == a.real * a.real + a.imag * a.imag
    IN  IF /\ (One - REAL_EPS) * (One - REAL_EPS) < One * s
           /\ One * s < (One + REAL_EPS) * (One + REAL_EPS)
        THEN 1 ELSE 0

\* A mutant of validateAlphaBeta: the comparison is >=.
validateAlphaBetaStrict(a, b) ==
    IF absReal(a.real * a.real
               + a.imag * a.imag
               + b.real * b.real
               + b.imag * b.imag - One) >= REAL_EPS THEN 0
    ELSE 1

\* validateAlphaBeta
validateAlphaBeta(a, b) ==
    IF absReal(a.real * a.real
               + a.imag * a.imag
               + b.real * b.real
               + b.imag * b.imag - One) > REAL_EPS THEN 0
    ELSE 1

\* A mutant of validateMatrixIsUnitary: the fourth check is missing.
validateMatrixIsUnitaryThreeChecks(m) ==
    IF absReal(m.r0c0.real * m.r0c0.real
               + m.r0c0.imag * m.r0c0.imag
               + m.r1c0.real * m.r1c0.real
               + m.r1c0.imag * m.r1c0.imag - One) > REAL_EPS THEN 0
    ELSE IF absReal(m.r0c1.real * m.r0c1.real
               + m.r0c1.imag * m.r0c1.imag
               + m.r1c1.real * m.r1c1.real
               + m.r1c1.imag * m.r1c1.imag - One) > REAL_EPS THEN 0
    ELSE IF absReal(m.r0c0.real * m.r0c1.real
               + m.r0c0.imag * m.r0c1.imag
               + m.r1c0.real * m.r1c1.real
               + m.r1c0.imag * m.r1c1.imag) > REAL_EPS THEN 0
    ELSE 1

\* validateMatrixIsUnitary
validateMatrixIsUnitary(m) ==
    IF absReal(m.r0c0.real * m.r0c0.real
               + m.r0c0.imag * m.r0c0.imag
               + m.r1c0.real * m.r1c0.real
               + m.r1c0.imag * m.r1c0.imag - One) > REAL_EPS THEN 0
    ELSE IF absReal(m.r0c1.real * m.r0c1.real
               + m.r0c1.imag * m.r0c1.imag
               + m.r1c1.real * m.r1c1.real
               + m.r1c1.imag * m.r1c1.imag - One) > REAL_EPS THEN 0
    ELSE IF absReal(m.r0c0.real * m.r0c1.real
               + m.r0c0.imag * m.r0c1.imag
               + m.r1c0.real * m.r1c1.real
               + m.r1c0.imag * m.r1c1.imag) > REAL_EPS THEN 0
    ELSE IF absReal(m.r0c1.real * m.r0c0.imag
               - m.r0c0.real * m.r0c1.imag
               + m.r1c1.real * m.r1c0.imag
               - m.r1c0.real * m.r1c1.imag) > REAL_EPS THEN 0
    ELSE 1

AlphaBetaInit ==
    /\ alpha \in GridComplex
    /\ beta \in GridComplex
    /\ alphaBetaResult = -1
    /\ unitComplexResult = -1

AlphaBetaIdle ==
    /\ alpha = [real |-> 0, imag |-> 0]
    /\ beta = [real |-> 0, imag |-> 0]
    /\ alphaBetaResult = -1
    /\ unitComplexResult = -1

\* A caller validates the pair (alpha, beta).
CallValidateAlphaBeta ==
    /\ alphaBetaResult = -1
    /\ alphaBetaResult' = validateAlphaBeta(alpha, beta)
    /\ UNCHANGED <<alpha, beta, unitComplexResult>>
    /\ AlphaBetaFrame

\* A caller validates alpha as a unit complex number.
CallValidateUnitComplex ==
    /\ unitComplexResult = -1
    /\ unitComplexResult' = validateUnitComplex(alpha)
    /\ UNCHANGED <<alpha, beta, alphaBetaResult>>
    /\ AlphaBetaFrame

\* The whole numbers the components of a matrix are drawn from.
MatrixInts == (-2) .. 2

\* A complex number with whole components.
IntComplex == [real : {k * Grid : k \in MatrixInts}, imag : {k * Grid : k \in MatrixInts}]

UnitaryInit ==
    /\ u \in [r0c0 : IntComplex, r0c1 : IntComplex, r1c0 : IntComplex, r1c1 : IntComplex]
    /\ unitaryResult = -1

UnitaryIdle ==
    /\ u = <<>>
    /\ unitaryResult = -1

\* A caller validates the matrix u.
CallValidateMatrixIsUnitary ==
    /\ unitaryResult = -1
    /\ unitaryResult' = validateMatrixIsUnitary(u)
    /\ UNCHANGED u
    /\ UnitaryFrame

-----------------------------------------------------------------------------
(* RotationDecomposer: getAlphaBetaFromRotation and the Conj variant       *)
(*                                                                         *)
(* Angles are whole multiples of pi, angle = halfTurns * pi, so that       *)
(* cos(angle/2) and sin(angle/2) are -1, 0 or 1; axes have one non-zero    *)
(* whole component, so that their magnitude is a whole number.  REAL       *)
(* values here are plain integers.                                         *)

\* cos(angle / 2.0) for angle = halfTurns * pi.
cosHalf(halfTurns) == <<1, 0, -1, 0>>[(halfTurns % 4) + 1]

\* sin(angle / 2.0) for angle = halfTurns * pi.
sinHalf(halfTurns) == <<0, 1, 0, -1>>[(halfTurns % 4) + 1]

\* sqrt of a perfect square.
sqrtExact(n) == CHOOSE m \in 0 .. n : m * m = n

\* The axes callers pass: one non-zero component, not necessarily of length 1.
Axes ==
    { a \in [x : (-MaxAxis) .. MaxAxis, y : (-MaxAxis) .. MaxAxis, z : (-MaxAxis) .. MaxAxis] :
        Cardinality({c \in {"x", "y", "z"} : a[c] # 0}) = 1 }

\* getAlphaBetaFromRotation
getAlphaBetaFromRotation(halfTurns, axis) ==
    LET mag == sqrtExact(axis.x * axis.x + axis.y * axis.y + axis.z * axis.z)
        unitAxis == [x |-> axis.x \div mag, y |-> axis.y \div mag, z |-> axis.z \div mag]
    IN  [alpha |-> [real |-> cosHalf(halfTurns),
                    imag |-> -(sinHalf(halfTurns) * unitAxis.z)],
         beta  |-> [real |-> sinHalf(halfTurns) * unitAxis.y,
                    imag |-> -(sinHalf(halfTurns) * unitAxis.x)]]

\* The pair pure_rotateAroundAxis hands to pure_compactUnitary.
rotateAroundAxisPair(halfTurns, axis) == getAlphaBetaFromRotation(halfTurns, axis)

\* A mutant of rotateAroundAxisConjPair: beta.imag is not negated.
rotateAroundAxisConjPairAlphaOnly(halfTurns, axis) ==
    LET ab == getAlphaBetaFromRotation(halfTurns, axis)
    IN  [alpha |-> [real |-> ab.alpha.real, imag |-> ab.alpha.imag * (-1)],
         beta  |-> ab.beta]

\* The pair pure_rotateAroundAxisConj hands to pure_compactUnitary:
\* alpha.imag *= -1; beta.imag *= -1;
rotateAroundAxisConjPair(halfTurns, axis) ==
    LET ab == getAlphaBetaFromRotation(halfTurns, axis)
    IN  [alpha |-> [real |-> ab.alpha.real, imag |-> ab.alpha.imag * (-1)],
         beta  |-> [real |-> ab.beta.real, imag |-> ab.beta.imag * (-1)]]

\* No pair computed yet.
NoPair == <<>>

RotInit ==
    /\ rotHalfTurns \in 0 .. MaxHalfTurns
    /\ rotAxis \in Axes
    /\ rotPair = NoPair
    /\ rotConjPair = NoPair

RotIdle ==
    /\ rotHalfTurns = 0
    /\ rotAxis = [x |-> 0, y |-> 0, z |-> 1]
    /\ rotPair = NoPair
    /\ rotConjPair = NoPair

\* pure_rotateAroundAxis(qureg, rotQubit, angle, axis)
CallRotateAroundAxis ==
    /\ rotPair = NoPair
    /\ rotPair' = rotateAroundAxisPair(rotHalfTurns, rotAxis)
    /\ UNCHANGED <<rotHalfTurns, rotAxis, rotConjPair>>
    /\ RotFrame

\* pure_rotateAroundAxisConj(qureg, rotQubit, angle, axis)
CallRotateAroundAxisConj ==
    /\ rotConjPair = NoPair
    /\ rotConjPair' = rotateAroundAxisConjPair(rotHalfTurns, rotAxis)
    /\ UNCHANGED <<rotHalfTurns, rotAxis, rotPair>>
    /\ RotFrame

-----------------------------------------------------------------------------
(* DistributedRegisterModel: reportQubitRegisterParams and reportState     *)
(*                                                                         *)
(* One process per chunk runs each report once; the processes interleave.  *)
(* Amplitudes here are whole numbers (a classical basis state).            *)

\* 2^n for a small n.
Pow2(n) == 2 ^ n

\* The register of chunk c of numChunks = 2^logChunks, numQubits qubits, in
\* the classical state basis.
MakeQureg(numQubits, logChunks, c, basis) ==
    LET per == Pow2(numQubits) \div Pow2(logChunks)
    IN  [numQubits |-> numQubits,
         numChunks |-> Pow2(logChunks),
         chunkId |-> c,
         numAmpsPerChunk |-> per,
         stateVec |->
            [real |-> [i \in 1 .. per |-> IF (c * per) + (i - 1) = basis THEN 1 ELSE 0],
             imag |-> [i \in 1 .. per |-> 0]]]

\* sprintf(filename, "state_rank_%d.csv", qureg.chunkId)
stateFileName(qureg) == <<"state_rank_", qureg.chunkId, ".csv">>

\* Every name a chunk of the model can give its file.
FileNames == {<<"state_rank_", c, ".csv">> : c \in 0 .. (Pow2(MaxLogChunks) - 1)}

\* A file that does not exist.
NoFile == <<"no file">>

\* A mutant of stateHeader: every chunk writes the header.
stateHeaderAlways(qureg) == << <<"real, imag">> >>

\* if (qureg.chunkId==0) fprintf(state, "real, imag\n");
stateHeader(qureg) ==
    IF qureg.chunkId = 0 THEN << <<"real, imag">> >> ELSE <<>>

\* fprintf(state, "%.12f, %.12f\n", stateVec.real[index], stateVec.imag[index])
stateLine(qureg, index) ==
    <<qureg.stateVec.real[index + 1], ", ", qureg.stateVec.imag[index + 1]>>

\* A mutant of reportQubitRegisterParamsLines: every chunk prints.
reportQubitRegisterParamsLinesAlways(qureg) ==
    LET numAmps == Pow2(qureg.numQubits)
        numAmpsPerRank == numAmps \div qureg.numChunks
    IN  << <<"QUBITS:">>,
           <<"Number of qubits is ", qureg.numQubits, ".">>,
           <<"Number of amps is ", numAmps, ".">>,
           <<"Number of amps per rank is ", numAmpsPerRank, ".">> >>

\* What reportQubitRegisterParams prints: numAmps = 1L << numQubits.
reportQubitRegisterParamsLines(qureg) ==
    LET numAmps == Pow2(qureg.numQubits)
        numAmpsPerRank == numAmps \div qureg.numChunks
    IN  IF qureg.chunkId = 0
        THEN << <<"QUBITS:">>,
                <<"Number of qubits is ", qureg.numQubits, ".">>,
                <<"Number of amps is ", numAmps, ".">>,
                <<"Number of amps per rank is ", numAmpsPerRank, ".">> >>
        ELSE <<>>

Chunks == DOMAIN quregs

ReportInit ==
    /\ \E numQubits \in 0 .. MaxReportQubits :
       \E logChunks \in 0 .. MaxLogChunks :
       \E basis \in 0 .. (Pow2(numQubits) - 1) :
          /\ logChunks <= numQubits
          /\ quregs = [c \in 0 .. (Pow2(logChunks) - 1) |->
                          MakeQureg(numQubits, logChunks, c, basis)]
    /\ console = <<>>
    /\ files = [f \in FileNames |-> NoFile]
    /\ reportPc = [c \in DOMAIN quregs |-> "todo"]
    /\ statePc = [c \in DOMAIN quregs |-> [at |-> "start", index |-> 0]]

ReportIdle ==
    /\ quregs = <<>>
    /\ console = <<>>
    /\ files = <<>>
    /\ reportPc = <<>>
    /\ statePc = <<>>

\* reportQubitRegisterParams(qureg) in the process of chunk c.
reportQubitRegisterParams(c) ==
    /\ reportPc[c] = "todo"
    /\ console' = console \o
          [i \in 1 .. Len(reportQubitRegisterParamsLines(quregs[c])) |->
              [by |-> c, line |-> reportQubitRegisterParamsLines(quregs[c])[i]]]
    /\ reportPc' = [reportPc EXCEPT ![c] = "done"]
    /\ UNCHANGED <<quregs, files, statePc>>
    /\ ReportFrame

\* reportState, its start: fopen(filename, "w") and the header.
reportStateOpen(c) ==
    /\ statePc[c].at = "start"
    /\ files' = [files EXCEPT ![stateFileName(quregs[c])] = stateHeader(quregs[c])]
    /\ statePc' = [statePc EXCEPT ![c] = [at |-> "loop", index |-> 0]]
    /\ UNCHANGED <<quregs, console, reportPc>>
    /\ ReportFrame

\* reportState, one turn of the loop: index < numAmpsPerChunk.
reportStateLine(c) ==
    /\ statePc[c].at = "loop"
    /\ statePc[c].index < quregs[c].numAmpsPerChunk
    /\ files' = [files EXCEPT ![stateFileName(quregs[c])] =
                    Append(@, stateLine(quregs[c], statePc[c].index))]
    /\ statePc' = [statePc EXCEPT ![c].index = @ + 1]
    /\ UNCHANGED <<quregs, console, reportPc>>
    /\ ReportFrame

\* reportState, its end: the loop is left and the file closed.
reportStateClose(c) ==
    /\ statePc[c].at = "loop"
    /\ ~(statePc[c].index < quregs[c].numAmpsPerChunk)
    /\ statePc' = [statePc EXCEPT ![c].at = "done"]
    /\ UNCHANGED <<quregs, console, files, reportPc>>
    /\ ReportFrame

-----------------------------------------------------------------------------
(* DistributedRegisterModel: pure_getNumQubits and pure_getNumAmps         *)
(*                                                                         *)
(* numAmpsPerChunk is a long long int (8 bytes), numChunks an int (4       *)
(* bytes), and both functions return int.                                  *)

\* A register of numQubits qubits in 2^logChunks chunks, its sizes in bytes.
MakeBigQureg(numQubits, logChunks) ==
    [numQubits |-> numQubits,
     numChunks |-> Pow2Limbs(logChunks, 4),
     chunkId |-> 0,
     numAmpsPerChunk |-> Pow2Limbs(numQubits - logChunks, 8)]

\* pure_getNumQubits
pure_getNumQubits(qureg) == qureg.numQubits

\* pure_getNumAmps: the long long product, converted to the int returned.
pure_getNumAmps(qureg) ==
    Truncate(MulLimbs(qureg.numAmpsPerChunk, SignExtend(qureg.numChunks, 8)), 4)

NumAmpsInit ==
    /\ \E numQubits \in 0 .. MaxNumQubits :
       \E logChunks \in 0 .. 30 :     \* numChunks is a positive int
          /\ logChunks <= numQubits
          /\ bigQureg = MakeBigQureg(numQubits, logChunks)
    /\ numAmpsResult = <<>>
    /\ numQubitsResult = -1

NumAmpsIdle ==
    /\ bigQureg = <<>>
    /\ numAmpsResult = <<>>
    /\ numQubitsResult = -1

\* A caller asks for the number of amplitudes.
CallGetNumAmps ==
    /\ numAmpsResult = <<>>
    /\ numAmpsResult' = pure_getNumAmps(bigQureg)
    /\ UNCHANGED <<bigQureg, numQubitsResult>>
    /\ NumAmpsFrame

\* A caller asks for the number of qubits.
CallGetNumQubits ==
    /\ numQubitsResult = -1
    /\ numQubitsResult' = pure_getNumQubits(bigQureg)
    /\ UNCHANGED <<bigQureg, numAmpsResult>>
    /\ NumAmpsFrame

-----------------------------------------------------------------------------
(* Specifications *)

\* The build the specifications that do not depend on it run under.
BuildIdle == build = [charSigned |-> TRUE, ulongBytes |-> 8]

ErrNext ==
    \/ \E isValid \in {0, 1}, errorCode \in ErrorKinds, func \in FuncNames :
          CallQuESTAssert(isValid, errorCode, func)
    \/ RunNextStatement

AssertInit ==
    /\ ErrInit /\ BuildIdle /\ HashIdle /\ SeedIdle /\ AlphaBetaIdle
    /\ UnitaryIdle /\ RotIdle /\ ReportIdle /\ NumAmpsIdle

SpecAssert == AssertInit /\ [][ErrNext]_vars

HashNext == CallHashString

HashSpecInit ==
    /\ HashInit /\ build \in Builds /\ ErrIdle /\ SeedIdle /\ AlphaBetaIdle
    /\ UnitaryIdle /\ RotIdle /\ ReportIdle /\ NumAmpsIdle

SpecHash == HashSpecInit /\ [][HashNext]_vars

SeedNext ==
    \/ Tick
    \/ \E p \in Procs : seedQuESTDefault(p)
    \/ \E p \in Procs, seedArray \in SeedArrays : seedQuEST(p, seedArray)

SeedSpecInit ==
    /\ SeedInit /\ build \in Builds /\ ErrIdle /\ HashIdle /\ AlphaBetaIdle
    /\ UnitaryIdle /\ RotIdle /\ ReportIdle /\ NumAmpsIdle

SpecSeed == SeedSpecInit /\ [][SeedNext]_vars

AlphaBetaNext ==
    \/ CallValidateAlphaBeta
    \/ CallValidateUnitComplex

AlphaBetaSpecInit ==
    /\ AlphaBetaInit /\ BuildIdle /\ ErrIdle /\ HashIdle /\ SeedIdle
    /\ UnitaryIdle /\ RotIdle /\ ReportIdle /\ NumAmpsIdle

SpecAlphaBeta == AlphaBetaSpecInit /\ [][AlphaBetaNext]_vars

UnitaryNext == CallValidateMatrixIsUnitary

UnitarySpecInit ==
    /\ UnitaryInit /\ BuildIdle /\ ErrIdle /\ HashIdle /\ SeedIdle
    /\ AlphaBetaIdle /\ RotIdle /\ ReportIdle /\ NumAmpsIdle

SpecUnitary == UnitarySpecInit /\ [][UnitaryNext]_vars

RotNext ==
    \/ CallRotateAroundAxis
    \/ CallRotateAroundAxisConj

RotateSpecInit ==
    /\ RotInit /\ BuildIdle /\ ErrIdle /\ HashIdle /\ SeedIdle
    /\ AlphaBetaIdle /\ UnitaryIdle /\ ReportIdle /\ NumAmpsIdle

SpecRotate == RotateSpecInit /\ [][RotNext]_vars

ReportNext ==
    \/ \E c \in Chunks : reportQubitRegisterParams(c)
    \/ \E c \in Chunks : reportStateOpen(c)
    \/ \E c \in Chunks : reportStateLine(c)
    \/ \E c \in Chunks : reportStateClose(c)

ReportSpecInit ==
    /\ ReportInit /\ BuildIdle /\ ErrIdle /\ HashIdle /\ SeedIdle
    /\ AlphaBetaIdle /\ UnitaryIdle /\ RotIdle /\ NumAmpsIdle

SpecReport == ReportSpecInit /\ [][ReportNext]_vars

NumAmpsNext ==
    \/ CallGetNumAmps
    \/ CallGetNumQubits

NumAmpsSpecInit ==
    /\ NumAmpsInit /\ BuildIdle /\ ErrIdle /\ HashIdle /\ SeedIdle
    /\ AlphaBetaIdle /\ UnitaryIdle /\ RotIdle /\ ReportIdle

SpecNumAmps == NumAmpsSpecInit /\ [][NumAmpsNext]_vars

\* Every subsystem from its first state.
Init ==
    /\ ErrInit /\ build \in Builds /\ HashInit /\ SeedInit /\ AlphaBetaInit
    /\ UnitaryInit /\ RotInit /\ ReportInit /\ NumAmpsInit

Next ==
    \/ ErrNext \/ HashNext \/ SeedNext \/ AlphaBetaNext
    \/ UnitaryNext \/ RotNext \/ ReportNext \/ NumAmpsNext

Spec == Init /\ [][Next]_vars

-----------------------------------------------------------------------------
(* Claims about the ErrorReporter, under SpecAssert *)

(* C1: a QuESTAssert call with isValid false ends the process with exit    *)
(* status equal to the error code and no statement after the call runs; a  *)
(* call with isValid true returns, prints nothing and leaves the process   *)
(* running.                                                                *)
C1_AssertContract ==
    lastCall # NoCall =>
        IF lastCall.isValid = 0
        THEN /\ proc.status = "exited"
             /\ proc.exitStatus = lastCall.errorCode
             /\ stmtsAfterCall = 0
        ELSE /\ proc.status = "running"
             /\ proc.exitStatus = -1
             /\ proc.stdout = stdoutBefore

\* A valid call returned and a later call with kind 5 failed.
C1_Witness ==
    /\ callsMade >= 2
    /\ lastCall.isValid = 0
    /\ lastCall.errorCode = 5
    /\ proc.status = "exited"
    /\ proc.exitStatus = 5

(* C2: a failed assertion never produces exit status 0, for any kind of    *)
(* the catalog 0 .. 16.                                                    *)
C2_ExitStatusNeverZero ==
    (lastCall # NoCall /\ lastCall.isValid = 0 /\ proc.status = "exited")
        => proc.exitStatus # 0

-----------------------------------------------------------------------------
(* Claims about the RotationDecomposer, under SpecRotate *)

CAdd(a, b) == [real |-> a.real + b.real, imag |-> a.imag + b.imag]
CNeg(a) == [real |-> -a.real, imag |-> -a.imag]
CMul(a, b) ==
    [real |-> a.real * b.real - a.imag * b.imag,
     imag |-> a.real * b.imag + a.imag * b.real]

\* The unitary pure_compactUnitary applies for the pair (a, b):
\* [[a, -conj(b)], [b, conj(a)]].
compactUnitaryMatrix(a, b) ==
    [r0c0 |-> a, r0c1 |-> CNeg(getConjugateScalar(b)),
     r1c0 |-> b, r1c1 |-> getConjugateScalar(a)]

\* The matrix product m * n.
MatMul(m, n) ==
    [r0c0 |-> CAdd(CMul(m.r0c0, n.r0c0), CMul(m.r0c1, n.r1c0)),
     r0c1 |-> CAdd(CMul(m.r0c0, n.r0c1), CMul(m.r0c1, n.r1c1)),
     r1c0 |-> CAdd(CMul(m.r1c0, n.r0c0), CMul(m.r1c1, n.r1c0)),
     r1c1 |-> CAdd(CMul(m.r1c0, n.r0c1), CMul(m.r1c1, n.r1c1))]

\* The matrix s * identity, for a real s.
ScalarMatrix(s) ==
    [r0c0 |-> [real |-> s, imag |-> 0], r0c1 |-> [real |-> 0, imag |-> 0],
     r1c0 |-> [real |-> 0, imag |-> 0], r1c1 |-> [real |-> s, imag |-> 0]]

BothDecomposed == rotPair # NoPair /\ rotConjPair # NoPair

PlainMatrix == compactUnitaryMatrix(rotPair.alpha, rotPair.beta)
ConjMatrix == compactUnitaryMatrix(rotConjPair.alpha, rotConjPair.beta)

(* C3, as stated: the unitary of the conjugated decomposition composed     *)
(* with the unitary of the plain decomposition is the identity matrix.     *)
C3_RoundTripIsIdentity ==
    BothDecomposed =>
        /\ MatMul(ConjMatrix, PlainMatrix) = ScalarMatrix(1)
        /\ MatMul(PlainMatrix, ConjMatrix) = ScalarMatrix(1)

(* C3, amended: the conjugated decomposition gives the elementwise complex *)
(* conjugate of the plain unitary; the product of the two is the identity  *)
(* exactly when sin(angle/2) * axis.y = 0, and minus the identity for a    *)
(* rotation about the y axis by an odd multiple of pi.                     *)
C3_ConjugateNotInverse ==
    BothDecomposed =>
        /\ ConjMatrix = getConjugateMatrix(PlainMatrix)
        /\ MatMul(ConjMatrix, PlainMatrix) = MatMul(PlainMatrix, ConjMatrix)
        /\ MatMul(ConjMatrix, PlainMatrix) =
              IF sinHalf(rotHalfTurns) = 0 \/ rotAxis.y = 0
              THEN ScalarMatrix(1) ELSE ScalarMatrix(-1)

\* Both decompositions of the rotation by pi about the y axis are made.
C3_Witness ==
    /\ BothDecomposed
    /\ rotHalfTurns = 1
    /\ rotAxis = [x |-> 0, y |-> 1, z |-> 0]
    /\ MatMul(ConjMatrix, PlainMatrix) = ScalarMatrix(-1)

-----------------------------------------------------------------------------
(* Claims about the DeterministicSeeder, under SpecSeed and SpecHash *)

(* C4: two processes of one run, with distinct process identifiers, the    *)
(* same host name and the same millisecond clock reading, that both call   *)
(* seedQuESTDefault pass identical key arrays to init_by_array.            *)
C4_SeedAgreement ==
    \A p, q \in Procs :
        ( /\ seededBy[p] = "seedQuESTDefault"
          /\ seededBy[q] = "seedQuESTDefault"
          /\ pidOf[p] # pidOf[q]
          /\ hostOf[p] = hostOf[q]
          /\ mtKey[p][1] = mtKey[q][1] )
        => mtKey[p] = mtKey[q]

RECURSIVE djb2Fold(_, _, _)
\* hash = hash * 33 + byte over bytes[i ..], modulo 2^(8 * Len(hash)), the
\* bytes taken as the unsigned values 0 .. 255.
djb2Fold(bytes, i, hash) ==
    IF i > Len(bytes) THEN hash
    ELSE djb2Fold(bytes, i + 1,
                  AddLimbs(MulSmallLimbs(hash, 33), ToLimbs(bytes[i], Len(hash))))

(* C8: hashString(s) is the fold of hash = hash * 33 + byte over the bytes *)
(* of s, as unsigned values, from 5381, modulo 2^w for the width w of      *)
(* unsigned long; hashString("") is 5381.                                  *)
C8_HashIsUnsignedDjb2 ==
    hashResult # <<>> =>
        /\ hashResult = djb2Fold(hashInput, 1, ToLimbs(5381, build.ulongBytes))
        /\ (hashInput = <<>> => hashResult = ToLimbs(5381, build.ulongBytes))

-----------------------------------------------------------------------------
(* Claims about the reports, under SpecReport *)

AllReported == \A c \in Chunks : reportPc[c] = "done"
AllWritten == \A c \in Chunks : statePc[c].at = "done"

\* The register fields every chunk shares.
SharedNumQubits == quregs[0].numQubits
SharedNumChunks == quregs[0].numChunks

(* C5: whatever the interleaving, only the process of chunk 0 prints, the  *)
(* parameter report is printed once that process has run and not before,   *)
(* and once every process has run the console holds the report exactly     *)
(* once: the qubit count, the amp count and the amps per rank.             *)
C5_ReportOnce ==
    /\ \A i \in 1 .. Len(console) : console[i].by = 0
    /\ Cardinality({i \in 1 .. Len(console) : console[i].line[1] = "Number of qubits is "})
          = IF reportPc[0] = "done" THEN 1 ELSE 0
    /\ AllReported =>
          [i \in 1 .. Len(console) |-> console[i].line] =
             << <<"QUBITS:">>,
                <<"Number of qubits is ", SharedNumQubits, ".">>,
                <<"Number of amps is ", Pow2(SharedNumQubits), ".">>,
                <<"Number of amps per rank is ",
                  Pow2(SharedNumQubits) \div SharedNumChunks, ".">> >>

\* Two processes have both run the report and the console holds it once.
C5_Witness ==
    /\ Cardinality(Chunks) = 2
    /\ AllReported
    /\ Len(console) = 4

\* The amplitude lines of a file: every line but the header.
AmpLines(content) == SelectSeq(content, LAMBDA l : l # <<"real, imag">>)

RECURSIVE SumOver(_, _)
\* The sum of f[c] over the chunks c in S.
SumOver(f, S) ==
    IF S = {} THEN 0
    ELSE LET c == CHOOSE x \in S : TRUE
         IN  f[c] + SumOver(f, S \ {c})

(* C6: a process that has finished reportState has written, to the file    *)
(* state_rank_<chunkId>.csv, one line per local amplitude in increasing    *)
(* index order, after the header line if and only if its chunkId is 0.     *)
(* Once all have finished, the files are distinct, one file holds the      *)
(* header and the files hold 2^numQubits amplitude lines in all.           *)
C6_StateFiles ==
    /\ \A c \in Chunks :
          statePc[c].at = "done" =>
              files[<<"state_rank_", c, ".csv">>] =
                  (IF c = 0 THEN << <<"real, imag">> >> ELSE <<>>)
                  \o [i \in 1 .. quregs[c].numAmpsPerChunk |->
                        <<quregs[c].stateVec.real[i], ", ", quregs[c].stateVec.imag[i]>>]
    /\ AllWritten =>
          /\ Cardinality({f \in FileNames : files[f] # NoFile}) = SharedNumChunks
          /\ Cardinality({f \in FileNames :
                 files[f] # NoFile /\ \E i \in 1 .. Len(files[f]) :
                                         files[f][i] = <<"real, imag">>}) = 1
          /\ SumOver([c \in Chunks |-> Len(AmpLines(files[stateFileName(quregs[c])]))],
                     Chunks) = Pow2(SharedNumQubits)

\* Two chunks of two amplitudes each have both written their files.
C6_Witness ==
    /\ Cardinality(Chunks) = 2
    /\ quregs[0].numAmpsPerChunk = 2
    /\ AllWritten
    /\ Len(files[<<"state_rank_", 0, ".csv">>]) = 3
    /\ Len(files[<<"state_rank_", 1, ".csv">>]) = 2

-----------------------------------------------------------------------------
(* Claims about the register queries, under SpecNumAmps *)

(* C7: for a register with numAmpsPerChunk * numChunks = 2^numQubits,      *)
(* pure_getNumAmps returns the 64-bit value 2^numQubits, without           *)
(* truncation or wrap-around, also when numQubits >= 31.                   *)
C7_NumAmpsIsPowerOfTwo ==
    numAmpsResult # <<>> =>
        SignExtend(numAmpsResult, 8) = Pow2Limbs(bigQureg.numQubits, 8)

-----------------------------------------------------------------------------
(* Claims about the validators, under SpecUnitary and SpecAlphaBeta *)

\* conj(a) * b
CConjMul(a, b) == CMul(getConjugateScalar(a), b)

\* The complex inner product of column i with column j (0 or 1) of m.
ColumnInner(m, i, j) ==
    LET col(k) == IF k = 0 THEN <<m.r0c0, m.r1c0>> ELSE <<m.r0c1, m.r1c1>>
    IN  CAdd(CConjMul(col(i)[1], col(j)[1]), CConjMul(col(i)[2], col(j)[2]))

\* x is within epsilon of y.
WithinEps(x, y) == absReal(x - y) <= REAL_EPS

FourChecksHold(m) ==
    /\ WithinEps(ColumnInner(m, 0, 0).real, One)
    /\ WithinEps(ColumnInner(m, 1, 1).real, One)
    /\ WithinEps(ColumnInner(m, 0, 1).real, 0)
    /\ WithinEps(ColumnInner(m, 0, 1).imag, 0)

ColumnsOrthonormal(m) ==
    /\ ColumnInner(m, 0, 0) = [real |-> One, imag |-> 0]
    /\ ColumnInner(m, 1, 1) = [real |-> One, imag |-> 0]
    /\ ColumnInner(m, 0, 1) = [real |-> 0, imag |-> 0]

\* The matrix of whole entries [[a, b], [c, d]], each entry <<re, im>>.
IntMatrix(a, b, c, d) ==
    [r0c0 |-> [real |-> a[1] * Grid, imag |-> a[2] * Grid],
     r0c1 |-> [real |-> b[1] * Grid, imag |-> b[2] * Grid],
     r1c0 |-> [real |-> c[1] * Grid, imag |-> c[2] * Grid],
     r1c1 |-> [real |-> d[1] * Grid, imag |-> d[2] * Grid]]

\* The identity and the Pauli matrices X, Y, Z.
Paulis ==
    { IntMatrix(<<1, 0>>, <<0, 0>>, <<0, 0>>, <<1, 0>>),
      IntMatrix(<<0, 0>>, <<1, 0>>, <<1, 0>>, <<0, 0>>),
      IntMatrix(<<0, 0>>, <<0, -1>>, <<0, 1>>, <<0, 0>>),
      IntMatrix(<<1, 0>>, <<0, 0>>, <<0, 0>>, <<-1, 0>>) }

Twice(a) == [real |-> 2 * a.real, imag |-> 2 * a.imag]

\* Each of them with one column scaled by 2.
ScaledPaulis ==
    {[m EXCEPT !.r0c0 = Twice(@), !.r1c0 = Twice(@)] : m \in Paulis}
      \cup {[m EXCEPT !.r0c1 = Twice(@), !.r1c1 = Twice(@)] : m \in Paulis}

(* C9: validateMatrixIsUnitary accepts a matrix exactly when the four      *)
(* checks hold (both columns of squared norm within epsilon of 1, the real *)
(* and the imaginary part of their inner product within epsilon of 0);     *)
(* over matrices of whole components in -2 .. 2 that is exactly when the   *)
(* columns are orthonormal: the identity and X, Y, Z are accepted, and     *)
(* each of them with one column scaled by 2 is rejected.                   *)
C9_UnitaryCheck ==
    unitaryResult # -1 =>
        /\ unitaryResult \in {0, 1}
        /\ (unitaryResult = 1) <=> FourChecksHold(u)
        /\ (unitaryResult = 1) <=> ColumnsOrthonormal(u)
        /\ u \in Paulis => unitaryResult = 1
        /\ u \in ScaledPaulis => unitaryResult = 0

\* Pauli Y has been validated and accepted.
C9_Witness ==
    /\ unitaryResult = 1
    /\ u = IntMatrix(<<0, 0>>, <<0, -1>>, <<0, 1>>, <<0, 0>>)

\* | |alpha|^2 + |beta|^2 - 1 |
AlphaBetaDeviation ==
    absReal(CConjMul(alpha, alpha).real + CConjMul(beta, beta).real - One)

(* C10, as stated: validateAlphaBeta returns true if and only if the       *)
(* deviation | |alpha|^2 + |beta|^2 - 1 | is strictly less than epsilon;   *)
(* a deviation of exactly epsilon is rejected.                             *)
C10_StrictBound ==
    alphaBetaResult # -1 =>
        ((alphaBetaResult = 1) <=> (AlphaBetaDeviation < REAL_EPS))

(* C10, amended: validateAlphaBeta returns true if and only if the         *)
(* deviation is at most epsilon; a deviation of exactly epsilon is         *)
(* accepted.                                                               *)
C10_InclusiveBound ==
    alphaBetaResult # -1 =>
        /\ alphaBetaResult \in {0, 1}
        /\ (alphaBetaResult = 1) <=> (AlphaBetaDeviation <= REAL_EPS)
        /\ (AlphaBetaDeviation = REAL_EPS) => alphaBetaResult = 1

\* A pair whose deviation is exactly epsilon has been validated.
C10_Witness ==
    /\ alphaBetaResult = 1
    /\ AlphaBetaDeviation = REAL_EPS

=============================================================================
